---- MODULE Spec2Model ----
(***************************************************************************)
(* Model of the incident lifecycle engine of ops-triage-hub                *)
(* (src/app/main.py): the incidents and timeline tables of the SQLite      *)
(* store, the create_incident and patch_incident handlers, and the read    *)
(* side views.                                                             *)
(*                                                                         *)
(* Text values are strings; Python None / SQL NULL is the string None.     *)
(* Instants are naturals (seconds of the wall clock); dt_to_iso renders an *)
(* instant as the text "T<n>".                                             *)
(***************************************************************************)
EXTENDS Integers, Sequences, FiniteSets, TLC

\* ---------------------------------------------------------------- bounds
MaxClock == 1
MaxEvents == 7

\* ---------------------------------------------------------------- config
None == "<None>"

\* fetchone() found no row
NoRow == [id |-> None]

PRIORITIES == {"P0", "P1", "P2", "P3"}
STATUSES == {"open", "investigating", "mitigated", "resolved"}
ROLES == {"On-call", "Ops Lead", "Support", "Engineering"}

STATUS_TRANSITIONS ==
    [s \in STATUSES |->
        CASE s = "open" -> {"investigating"}
          [] s = "investigating" -> {"mitigated", "resolved"}
          [] s = "mitigated" -> {"resolved"}
          [] s = "resolved" -> {}]

\* ---------------------------------------------------------------- text helpers
\* str.strip() on the texts the requests are drawn from
Strip(s) ==
    CASE s = " Resolved " -> "Resolved"
      [] s = " On-call " -> "On-call"
      [] s = " fixed " -> "fixed"
      [] s = " hi " -> "hi"
      [] s = " api down " -> "api down"
      [] s = " checkout returns 500 " -> "checkout returns 500"
      [] s = "  " -> ""
      [] OTHER -> s

\* str.upper()
Upper(s) ==
    CASE s = "p1" -> "P1"
      [] s = "px" -> "PX"
      [] OTHER -> s

\* str.lower()
Lower(s) ==
    CASE s = "Resolved" -> "resolved"
      [] OTHER -> s

\* truthiness of an Optional[str]
Truthy(s) == s # None /\ s # ""

\* dt.isoformat() of an instant
dt_to_iso(dt) == "T" \o ToString(dt)

\* normalize_*: the normalised value, or None where the code raises 400
normalize_priority(p) ==
    LET q == Upper(Strip(IF Truthy(p) THEN p ELSE ""))
    IN  IF q \in PRIORITIES THEN q ELSE None

normalize_status(s) ==
    LET q == Lower(Strip(IF Truthy(s) THEN s ELSE ""))
    IN  IF q \in STATUSES THEN q ELSE None

normalize_role(r) ==
    LET q == Strip(IF Truthy(r) THEN r ELSE "")
    IN  IF q \in ROLES THEN q ELSE None

\* ---------------------------------------------------------------- store
\* incidents: the committed rows of table incidents, keyed by id
\* timeline:  the committed rows of table timeline, per incident, in insert order
\* clock:     the wall clock read by utcnow()
\* locked:    an unclosed connection with an uncommitted write transaction
\*            holds the database write lock until it is finalised
\* last:      the request in service and its response
\* calls:     the patch calls that run concurrently, each on its own thread
\*            and connection, with what each has read and written so far
VARIABLES incidents, timeline, clock, locked, last, calls

vars == <<incidents, timeline, clock, locked, last, calls>>

\* the identifiers uuid4() can return
IncidentIds == {"inc-1"}

Idle == [op |-> "idle"]

\* the instants the next n calls of utcnow() can return, in call order
RECURSIVE Samples(_, _)
Samples(n, lo) ==
    IF n = 0 THEN {<<>>}
    ELSE UNION {{<<t>> \o s : s \in Samples(n - 1, t)} : t \in lo..MaxClock}

\* a recorder that rewrites the newest row of the incident instead of adding one
add_timeline_overwrite(tl, incident_id, event_type, old, new, at) ==
    LET n == IF tl = <<>> THEN 1 ELSE Len(tl)
        event == [id |-> <<incident_id, n>>,
                  incident_id |-> incident_id,
                  event_type |-> event_type,
                  created_at |-> dt_to_iso(at),
                  old_value |-> old,
                  new_value |-> new]
    IN  IF tl = <<>> THEN <<event>> ELSE [tl EXCEPT ![n] = event]

\* add_timeline: one more row of table timeline, stamped with its own utcnow()
add_timeline(tl, incident_id, event_type, old, new, at) ==
    Append(tl, [id |-> <<incident_id, Len(tl) + 1>>,
                incident_id |-> incident_id,
                event_type |-> event_type,
                created_at |-> dt_to_iso(at),
                old_value |-> old,
                new_value |-> new])

\* ---------------------------------------------------------------- create_incident
\* T[k] is the instant returned by the k-th call of utcnow()
create_incident(iid, payload, T) ==
    LET prio == normalize_priority(payload.priority)
        now == T[1]
        row == [id |-> iid,
                title |-> Strip(payload.title),
                description |-> Strip(payload.description),
                priority |-> prio,
                status |-> "open",
                created_at |-> dt_to_iso(now),
                updated_at |-> dt_to_iso(now),
                resolved_at |-> None,
                resolved_by |-> None,
                resolution_notes |-> None]
    IN  IF prio = None
        THEN [result |-> "ValidationError", samples |-> 0, wrote |-> FALSE,
              closed |-> TRUE, row |-> NoRow, tl |-> <<>>]
        ELSE [result |-> "ok", samples |-> 2, wrote |-> TRUE, closed |-> TRUE,
              row |-> row,
              tl |-> add_timeline(<<>>, iid, "created", None, prio \o " open", T[2])]

\* ---------------------------------------------------------------- patch_incident
\* a lifecycle check that treats a status without listed successors as
\* unconstrained
transition_rejected_terminal(old_status, new_status) ==
    /\ new_status # old_status
    /\ STATUS_TRANSITIONS[old_status] # {}
    /\ new_status \notin STATUS_TRANSITIONS[old_status]

\* a lifecycle check that lets any status move to resolved
transition_rejected_shortcut(old_status, new_status) ==
    /\ new_status # old_status
    /\ new_status # "resolved"
    /\ new_status \notin STATUS_TRANSITIONS[old_status]

\* a lifecycle check that rejects nothing
transition_rejected_never(old_status, new_status) == FALSE

\* a lifecycle check that also rejects the status the incident already has
transition_rejected_repeat(old_status, new_status) ==
    new_status \notin STATUS_TRANSITIONS[old_status]

\* the lifecycle check of lines 386-387
transition_rejected(old_status, new_status) ==
    new_status # old_status /\ new_status \notin STATUS_TRANSITIONS[old_status]

\* line 394: a priority is supplied (first block)
priority_supplied(payload) == Truthy(payload.priority)

\* a comparison that takes every supplied priority for a change
priority_differs_always(new_prio, old_prio) == TRUE

\* line 397: the supplied priority differs from the row's
priority_differs(new_prio, old_prio) == new_prio # old_prio

\* line 405: the first note block fires
note_supplied(payload) == Truthy(payload.note) /\ Truthy(Strip(payload.note))

\* a second note block that never fires
note_added_never(payload) == FALSE

\* line 423: the second note block fires
note_added_supplied(payload) == payload.note # None /\ Truthy(Strip(payload.note))

\* a resolve branch taken by every patch of a non-resolved incident
entering_on_any_status(old_status, new_status) == old_status # "resolved"

\* line 427: the patch enters resolved
entering_resolved(old_status, new_status) ==
    new_status = "resolved" /\ old_status # "resolved"

\* a resolve precondition that never misses resolved_by
resolved_by_never_missing(payload) == FALSE

\* line 428
resolved_by_missing(payload) == ~Truthy(payload.resolved_by)

\* line 431
resolution_notes_missing(payload) ==
    ~Truthy(payload.resolution_notes) \/ ~Truthy(Strip(payload.resolution_notes))

\* the outcome of a handler: its response, the utcnow() calls it made, whether
\* it had issued a write, whether its connection was closed, and the row and
\* timeline as written in its transaction when it ended (committed only when
\* result = "ok")
Outcome(result, samples, wrote, closed, row, tl) ==
    [result |-> result, samples |-> samples, wrote |-> wrote, closed |-> closed,
     row |-> row, tl |-> tl]

\* `if cond: add_timeline(...)`
add_timeline_if(cond, tl, incident_id, event_type, old, new, at) ==
    IF cond THEN add_timeline(tl, incident_id, event_type, old, new, at) ELSE tl

\* resolution events with the marker of the notes after resolved_at
resolve_events_marker_last(tl, incident_id, row, resolved_by, resolved_at, at) ==
    add_timeline(
        add_timeline(
            add_timeline(tl, incident_id, "resolved_by", row.resolved_by,
                         resolved_by, at[1]),
            incident_id, "resolved_at", row.resolved_at, resolved_at, at[2]),
        incident_id, "resolution_notes", None, "added", at[3])

\* lines 439-441: the three resolution events, stamped at[1], at[2], at[3]
resolve_events(tl, incident_id, row, resolved_by, resolved_at, at) ==
    add_timeline(
        add_timeline(
            add_timeline(tl, incident_id, "resolved_by", row.resolved_by,
                         resolved_by, at[1]),
            incident_id, "resolution_notes", None, "added", at[2]),
        incident_id, "resolved_at", row.resolved_at, resolved_at, at[3])

\* `if entering: ...` around lines 439-441
resolve_events_if(cond, tl, incident_id, row, resolved_by, resolved_at, at) ==
    IF cond
    THEN resolve_events(tl, incident_id, row, resolved_by, resolved_at, at)
    ELSE tl

\* an UPDATE that leaves the status column out
update_row_without_status(row, priority, status, updated_at, resolution) ==
    [row EXCEPT !.priority = priority,
                !.updated_at = updated_at,
                !.resolved_at = resolution[1],
                !.resolved_by = resolution[2],
                !.resolution_notes = resolution[3]]

\* an UPDATE that stamps resolved_at again on every write of a resolved row
update_row_restamped(row, priority, status, updated_at, resolution) ==
    [row EXCEPT !.priority = priority,
                !.status = status,
                !.updated_at = updated_at,
                !.resolved_at = IF status = "resolved" THEN updated_at
                                ELSE resolution[1],
                !.resolved_by = resolution[2],
                !.resolution_notes = resolution[3]]

\* lines 447-454: the UPDATE of the six columns; resolution holds resolved_at,
\* resolved_by and resolution_notes
update_row(row, priority, status, updated_at, resolution) ==
    [row EXCEPT !.priority = priority,
                !.status = status,
                !.updated_at = updated_at,
                !.resolved_at = resolution[1],
                !.resolved_by = resolution[2],
                !.resolution_notes = resolution[3]]

\* 1 for True, 0 for False
Count(cond) == IF cond THEN 1 ELSE 0

\* lines 394-454 on a connection whose SELECT of line 380 returned `read`,
\* while the table holds `current` and the timeline rows tl0; the SELECT of
\* line 403 reads the table again, inside the call's transaction.
\* T[k]: the instant returned by the k-th call of utcnow()
patch_writes(read, current, tl0, incident_id, payload, T) ==
    LET new_status == normalize_status(payload.status)
        old_status == read.status
        \* lines 394-403: priority change, written and re-read
        new_prio1 == normalize_priority(payload.priority)
        bad_prio1 == priority_supplied(payload) /\ new_prio1 = None
        change1 == priority_supplied(payload) /\ new_prio1 # None
                   /\ priority_differs(new_prio1, read.priority)
        tl1 == add_timeline_if(change1, tl0, incident_id, "priority_changed",
                               read.priority, new_prio1, T[1])
        row == IF change1
               THEN [current EXCEPT !.priority = new_prio1,
                                    !.updated_at = dt_to_iso(T[2])]
               ELSE read
        k1 == 2 * Count(change1)
        \* lines 405-406
        note1 == note_supplied(payload)
        tl2 == add_timeline_if(note1, tl1, incident_id, "note", None,
                               Strip(payload.note), T[k1 + 1])
        k2 == k1 + Count(note1)
        \* line 407
        now == T[k2 + 1]
        k3 == k2 + 1
        \* lines 416-420
        given2 == payload.priority # None
        new_prio2 == normalize_priority(payload.priority)
        bad_prio2 == given2 /\ new_prio2 = None
        change2 == given2 /\ new_prio2 # None
                   /\ priority_differs(new_prio2, row.priority)
        tl3 == add_timeline_if(change2, tl2, incident_id, "resolution_notes",
                               None, row.resolution_notes, T[k3 + 1])
        priority == IF change2 THEN new_prio2 ELSE row.priority
        k4 == k3 + Count(change2)
        \* lines 423-424
        note2 == note_added_supplied(payload)
        tl4 == add_timeline_if(note2, tl3, incident_id, "note_added", None,
                               Strip(payload.note), T[k4 + 1])
        k5 == k4 + Count(note2)
        \* lines 427-441
        entering == entering_resolved(old_status, new_status)
        role == normalize_role(payload.resolved_by)
        resolved_by == IF entering THEN role ELSE row.resolved_by
        resolution_notes == IF entering THEN Strip(payload.resolution_notes)
                            ELSE row.resolution_notes
        resolved_at == IF entering THEN dt_to_iso(now) ELSE row.resolved_at
        tl5 == resolve_events_if(entering, tl4, incident_id, row, resolved_by,
                                 resolved_at, <<T[k5 + 1], T[k5 + 2], T[k5 + 3]>>)
        k6 == k5 + 3 * Count(entering)
        \* lines 444-445
        status_differs == new_status # old_status
        tl6 == add_timeline_if(status_differs, tl5, incident_id,
                               "status_changed", old_status, new_status,
                               T[k6 + 1])
        k7 == k6 + Count(status_differs)
        \* lines 447-454
        updated == update_row(row, priority, new_status, dt_to_iso(now),
                              <<resolved_at, resolved_by, resolution_notes>>)
    IN
    IF bad_prio1
    THEN Outcome("ValidationError", 0, FALSE, FALSE, read, tl0)
    ELSE IF bad_prio2
    THEN Outcome("ValidationError", k3, tl2 # tl0, FALSE, row, tl2)
    ELSE IF entering /\ resolved_by_missing(payload)
    THEN Outcome("PreconditionError", k5, tl4 # tl0, TRUE, row, tl4)
    ELSE IF entering /\ resolution_notes_missing(payload)
    THEN Outcome("PreconditionError", k5, tl4 # tl0, TRUE, row, tl4)
    ELSE IF entering /\ role = None
    THEN Outcome("ValidationError", k5, tl4 # tl0, FALSE, row, tl4)
    ELSE Outcome("ok", k7, TRUE, TRUE, updated, tl6)

\* patch_incident served alone: row0, tl0 are the incident's row (NoRow when
\* absent) and timeline as stored, and stay so while the handler runs
patch_incident(row0, tl0, incident_id, payload, T) ==
    IF normalize_status(payload.status) = None
    THEN Outcome("ValidationError", 0, FALSE, TRUE, row0, tl0)
    ELSE IF row0 = NoRow
    THEN Outcome("NotFoundError", 0, FALSE, TRUE, row0, tl0)
    ELSE IF transition_rejected(row0.status, normalize_status(payload.status))
    THEN Outcome("TransitionError", 0, FALSE, TRUE, row0, tl0)
    ELSE patch_writes(row0, row0, tl0, incident_id, payload, T)

\* ---------------------------------------------------------------- read side
DefaultDays == 7
DefaultListLimit == 50
DefaultActiveLimit == 200
SecondsPerDay == 86400

\* the instant an ISO text of the store denotes (SQLite compares the texts;
\* texts written by dt_to_iso order as their instants do)
Instant(text) == CHOOSE t \in 0..MaxClock : dt_to_iso(t) = text

\* NULLIF(x, '')
NullIfEmpty(x) == IF x = "" THEN None ELSE x

\* COALESCE(NULLIF(resolved_at,''), NULLIF(updated_at,''), created_at)
resolution_ts(r) ==
    IF NullIfEmpty(r.resolved_at) # None THEN r.resolved_at
    ELSE IF NullIfEmpty(r.updated_at) # None THEN r.updated_at
    ELSE r.created_at

Min(a, b) == IF a <= b THEN a ELSE b

\* SELECT ... ORDER BY key DESC LIMIT limit: the row sequences the query can
\* return (the order of rows with equal keys is not determined by the query)
Select(rows, key, limit) ==
    LET n == Cardinality(rows)
        sorted == {f \in [1..n -> rows] :
                     /\ \A i, j \in 1..n : i # j => f[i] # f[j]
                     /\ \A i, j \in 1..n : i < j => key[f[i]] >= key[f[j]]}
    IN  {SubSeq(f, 1, Min(limit, n)) : f \in sorted}

Rows == {incidents[i] : i \in DOMAIN incidents}

\* an active view without the status filter
active_incidents_unfiltered(limit) ==
    Select(Rows, [r \in Rows |-> Instant(r.created_at)], limit)

\* GET /ops/active-incidents: WHERE status != 'resolved'
active_incidents(limit) ==
    LET active == {r \in Rows : r.status # "resolved"}
    IN  Select(active, [r \in active |-> Instant(r.created_at)], limit)

\* status is None when the query parameter is absent
list_incidents(status, days, limit, now) ==
    LET s == normalize_status(status)
        cutoff == now - days * SecondsPerDay
        byCreated == [r \in Rows |-> Instant(r.created_at)]
        byResolution == [r \in Rows |-> Instant(resolution_ts(r))]
        matching == {r \in Rows :
                       /\ r.status = s
                       /\ s = "resolved" => Instant(resolution_ts(r)) >= cutoff}
    IN  IF ~Truthy(status) THEN Select(Rows, byCreated, limit)
        ELSE IF s = None THEN {}
        ELSE IF Lower(status) = "resolved" THEN Select(matching, byResolution, limit)
        ELSE Select(matching, byCreated, limit)

Ids(rows) == {rows[k].id : k \in DOMAIN rows}

\* ---------------------------------------------------------------- requests
CreatePayloads ==
    [title : {" api down "},
     description : {" checkout returns 500 "},
     priority : {"P2", "px"}]

PatchPriorities == {None, "", "p1", "px"}
PatchNotes == {None, "  ", " hi "}

\* requests that ask for resolved, with every combination of the metadata
ResolvePayloads ==
    [status : {" Resolved "},
     priority : PatchPriorities,
     resolved_by : {None, " On-call ", "Nobody"},
     resolution_notes : {None, "  ", " fixed "},
     note : PatchNotes]

\* requests for the other statuses, without or with resolve metadata
StepPayloads ==
    [status : {"open", "investigating", "mitigated"},
     priority : PatchPriorities,
     resolved_by : {None},
     resolution_notes : {None},
     note : {None, " hi "}]
    \cup
    [status : {"open", "investigating", "mitigated"},
     priority : PatchPriorities,
     resolved_by : {" On-call "},
     resolution_notes : {" fixed "},
     note : {None, " hi "}]

\* requests with a status outside STATUSES
BadStatusPayloads ==
    [status : {"closed"},
     priority : {None, "p1"},
     resolved_by : {None},
     resolution_notes : {None},
     note : {None, " hi "}]

PatchPayloads == ResolvePayloads \cup StepPayloads \cup BadStatusPayloads

RowOf(id) == IF id \in DOMAIN incidents THEN incidents[id] ELSE NoRow
TimelineOf(id) == IF id \in DOMAIN timeline THEN timeline[id] ELSE <<>>

\* the number of rows of table timeline
RECURSIVE Total(_, _)
Total(tls, ids) ==
    IF ids = {} THEN 0
    ELSE LET i == CHOOSE x \in ids : TRUE
         IN  Len(tls[i]) + Total(tls, ids \ {i})

Stored == Total(timeline, DOMAIN timeline)

\* a handler's outcome against the store: a statement that writes fails with
\* "database is locked" while another connection holds the write lock
Served(o) ==
    IF locked /\ o.wrote
    THEN Outcome("OperationalError", o.samples, FALSE, FALSE, NoRow, <<>>)
    ELSE o

\* a store that keeps the writes a handler had issued when it failed
Commit_partial(o, id) ==
    /\ incidents' = IF o.result = "ok" \/ o.wrote
                    THEN (id :> o.row) @@ incidents ELSE incidents
    /\ timeline' = IF o.result = "ok" \/ o.wrote
                   THEN (id :> o.tl) @@ timeline ELSE timeline
    /\ locked' = (locked \/ (o.wrote /\ ~o.closed))

\* the store after a handler: its writes are committed only by conn.commit(),
\* and rolled back when the connection is closed or finalised without it;
\* a connection left open with writes keeps the write lock
Commit(o, id) ==
    /\ incidents' = IF o.result = "ok" THEN (id :> o.row) @@ incidents ELSE incidents
    /\ timeline' = IF o.result = "ok" THEN (id :> o.tl) @@ timeline ELSE timeline
    /\ locked' = (locked \/ (o.wrote /\ ~o.closed))

\* the request in service: what was asked, the response, whether the handler
\* had issued a write, and the store as the handler found it
Request(op, id, payload, o) ==
    [op |-> op, id |-> id, payload |-> payload, result |-> o.result,
     wrote |-> o.wrote, incidents |-> incidents, timeline |-> timeline,
     locked |-> locked]

\* ---------------------------------------------------------------- actions
Init ==
    /\ incidents = <<>>
    /\ timeline = <<>>
    /\ clock = 0
    /\ locked = FALSE
    /\ last = Idle
    /\ calls = <<>>

Create(ids, payloads) ==
    /\ last = Idle
    /\ \E iid \in ids \ DOMAIN incidents, payload \in payloads :
         LET T0 == [k \in Nat |-> clock]
             n == create_incident(iid, payload, T0).samples
         IN  \E T \in Samples(n, clock) :
               LET o == Served(create_incident(iid, payload, T))
               IN  /\ o.result = "ok" => Stored + Len(o.tl) <= MaxEvents
                   /\ Commit(o, iid)
                   /\ clock' = IF n = 0 THEN clock ELSE T[n]
                   /\ last' = Request("create", iid, payload, o)
                   /\ UNCHANGED calls

Patch(ids, payloads) ==
    /\ last = Idle
    /\ \E id \in ids, payload \in payloads :
         LET T0 == [k \in Nat |-> clock]
             n == patch_incident(RowOf(id), TimelineOf(id), id, payload, T0).samples
         IN  \E T \in Samples(n, clock) :
               LET o == Served(patch_incident(RowOf(id), TimelineOf(id), id, payload, T))
               IN  /\ o.result = "ok" =>
                         Stored + Len(o.tl) - Len(TimelineOf(id)) <= MaxEvents
                   /\ Commit(o, id)
                   /\ clock' = IF n = 0 THEN clock ELSE T[n]
                   /\ last' = Request("patch", id, payload, o)
                   /\ UNCHANGED calls

CreateIncident == Create(IncidentIds, CreatePayloads)

PatchIncident == Patch(IncidentIds, PatchPayloads)

\* GET /ops/active-incidents
ActiveIncidents ==
    /\ last = Idle
    /\ \E limit \in {1, DefaultActiveLimit} :
         \E rows \in active_incidents(limit) :
            last' = [op |-> "active", limit |-> limit, result |-> rows]
    /\ UNCHANGED <<incidents, timeline, clock, locked, calls>>

\* GET /incidents
ListIncidents ==
    /\ last = Idle
    /\ \E status \in {None, "resolved", "open", "closed"} :
         LET answers == list_incidents(status, DefaultDays, DefaultListLimit, clock)
         IN  IF answers = {}
             THEN last' = [op |-> "list", status |-> status,
                           result |-> "ValidationError"]
             ELSE \E rows \in answers :
                    last' = [op |-> "list", status |-> status, result |-> rows]
    /\ UNCHANGED <<incidents, timeline, clock, locked, calls>>

\* GET /incidents/{id}/timeline: the rows of the incident (their order among
\* equal created_at is not determined by the query)
IncidentTimeline ==
    /\ last = Idle
    /\ \E id \in IncidentIds :
         last' = [op |-> "timeline", id |-> id,
                  result |-> IF id \in DOMAIN incidents
                             THEN {timeline[id][k] : k \in DOMAIN timeline[id]}
                             ELSE "NotFoundError"]
    /\ UNCHANGED <<incidents, timeline, clock, locked, calls>>

\* the response is delivered
Return ==
    /\ last # Idle
    /\ last' = Idle
    /\ UNCHANGED <<incidents, timeline, clock, locked, calls>>

\* the garbage collector finalises the unclosed connections: their
\* uncommitted transactions are rolled back and the write lock is released
CollectGarbage ==
    /\ locked
    /\ locked' = FALSE
    /\ UNCHANGED <<incidents, timeline, clock, last, calls>>

Next ==
    \/ CreateIncident
    \/ PatchIncident
    \/ ActiveIncidents
    \/ ListIncidents
    \/ IncidentTimeline
    \/ Return
    \/ CollectGarbage

Spec == Init /\ [][Next]_vars

\* ---------------------------------------------------------------- two incidents
PairIds == {"inc-1", "inc-2"}

PairCreatePayloads ==
    [title : {" api down "},
     description : {" checkout returns 500 "},
     priority : {"P2"}]

\* status steps, a resolve with its metadata, and patches of the current
\* status that carry other resolve metadata or another priority
PairPayloads ==
    [status : {"investigating"},
     priority : {None},
     resolved_by : {None},
     resolution_notes : {None},
     note : {None}]
    \cup
    [status : {" Resolved "},
     priority : {None, "p1"},
     resolved_by : {" On-call ", "support"},
     resolution_notes : {" fixed ", "again"},
     note : {None}]

CreateOfPair == Create(PairIds, PairCreatePayloads)

PatchOfPair == Patch(PairIds, PairPayloads)

NextPair ==
    \/ CreateOfPair
    \/ PatchOfPair
    \/ Return

SpecPair == Init /\ [][NextPair]_vars

\* ---------------------------------------------------------------- concurrent patches
\* patch_incident is a sync endpoint: two calls run on two threads, each on
\* its own connection. The SELECT of line 380 runs outside any transaction;
\* the first INSERT or UPDATE of a call opens a transaction that holds the
\* write lock until conn.commit() or conn.close().
Callers == {"a", "b"}

IdleCall == [pc |-> "idle"]

\* the requests the concurrent callers send
ConcurrentPayloads ==
    [status : {"investigating", "mitigated", " Resolved "},
     priority : {None, "p1"},
     resolved_by : {None, " On-call "},
     resolution_notes : {" fixed "},
     note : {None}]

\* a store and the store after one more patch served alone at instant 0
StoreOf(o) == [row |-> o.row, tl |-> o.tl]

StepTo(store, status) ==
    StoreOf(patch_incident(store.row, store.tl, "inc-1",
                           [status |-> status, priority |-> None,
                            resolved_by |-> " On-call ",
                            resolution_notes |-> " fixed ", note |-> None],
                           [k \in Nat |-> 0]))

\* the stores the concurrent calls can find: a fresh incident, and the
\* incident after it moved to investigating, then to mitigated or resolved
FreshStores ==
    {StoreOf(create_incident("inc-1", payload, [k \in Nat |-> 0])) :
        payload \in {p \in CreatePayloads : normalize_priority(p.priority) # None}}

InvestigatedStores == {StepTo(store, "investigating") : store \in FreshStores}

LaterStores ==
    {StepTo(store, status) :
        store \in InvestigatedStores, status \in {"mitigated", " Resolved "}}

InitConcurrent ==
    /\ \E store \in FreshStores \cup InvestigatedStores \cup LaterStores :
         /\ incidents = ("inc-1" :> store.row)
         /\ timeline = ("inc-1" :> store.tl)
    /\ clock = 0
    /\ locked = FALSE
    /\ last = [op |-> "concurrent", incidents |-> incidents, timeline |-> timeline]
    /\ calls = [c \in Callers |-> IdleCall]

\* lines 377-392: the call reads the row and validates the request against it
ReadRow(c) ==
    /\ calls[c].pc = "idle"
    /\ \E id \in IncidentIds, payload \in ConcurrentPayloads :
         LET new_status == normalize_status(payload.status)
             row == RowOf(id)
             result == IF new_status = None THEN "ValidationError"
                       ELSE IF row = NoRow THEN "NotFoundError"
                       ELSE IF transition_rejected(row.status, new_status)
                            THEN "TransitionError"
                       ELSE None
         IN  calls' = [calls EXCEPT ![c] =
                         [pc |-> IF result = None THEN "read" ELSE "done",
                          id |-> id, payload |-> payload, row |-> row,
                          result |-> result, wrote |-> FALSE]]
    /\ UNCHANGED <<incidents, timeline, clock, locked, last>>

\* lines 394-454: the call writes in its own transaction, from the row it
\* has read; a call that ends here without a write is done
WriteRows(c) ==
    /\ calls[c].pc = "read"
    /\ LET id == calls[c].id
           payload == calls[c].payload
           T0 == [k \in Nat |-> clock]
           n == patch_writes(calls[c].row, RowOf(id), TimelineOf(id), id,
                             payload, T0).samples
       IN  \E T \in Samples(n, clock) :
             LET o == patch_writes(calls[c].row, RowOf(id), TimelineOf(id), id,
                                   payload, T)
             IN  /\ o.wrote => ~locked
                 /\ clock' = IF n = 0 THEN clock ELSE T[n]
                 /\ locked' = (locked \/ o.wrote)
                 /\ calls' = [calls EXCEPT ![c] =
                                [pc |-> IF o.wrote THEN "wrote" ELSE "done",
                                 id |-> id, payload |-> payload,
                                 row |-> calls[c].row, result |-> o.result,
                                 wrote |-> o.wrote, closed |-> o.closed,
                                 update |-> o.row, tl |-> o.tl]]
    /\ UNCHANGED <<incidents, timeline, last>>

\* the first write of the call finds the write lock taken and the busy
\* timeout expires: sqlite3.OperationalError, database is locked
WriteRefused(c) ==
    /\ calls[c].pc = "read"
    /\ locked
    /\ LET id == calls[c].id
           T0 == [k \in Nat |-> clock]
       IN  patch_writes(calls[c].row, RowOf(id), TimelineOf(id), id,
                        calls[c].payload, T0).wrote
    /\ calls' = [calls EXCEPT ![c] =
                   [pc |-> "done", id |-> calls[c].id,
                    payload |-> calls[c].payload, row |-> calls[c].row,
                    result |-> "OperationalError", wrote |-> FALSE]]
    /\ UNCHANGED <<incidents, timeline, clock, locked, last>>

\* lines 455-458, or the conn.close() of an error path: the transaction of
\* the call is committed or rolled back and the write lock released
EndTransaction(c) ==
    /\ calls[c].pc = "wrote"
    /\ incidents' = IF calls[c].result = "ok"
                    THEN (calls[c].id :> calls[c].update) @@ incidents
                    ELSE incidents
    /\ timeline' = IF calls[c].result = "ok"
                   THEN (calls[c].id :> calls[c].tl) @@ timeline
                   ELSE timeline
    /\ locked' = ~calls[c].closed
    /\ calls' = [calls EXCEPT ![c].pc = "done"]
    /\ UNCHANGED <<clock, last>>

NextConcurrent ==
    \/ \E c \in Callers : ReadRow(c)
    \/ \E c \in Callers : WriteRows(c)
    \/ \E c \in Callers : WriteRefused(c)
    \/ \E c \in Callers : EndTransaction(c)

SpecConcurrent == InitConcurrent /\ [][NextConcurrent]_vars

\* ---------------------------------------------------------------- health
SLA_MINUTES ==
    [p \in PRIORITIES |->
        CASE p = "P0" -> 30
          [] p = "P1" -> 120
          [] p = "P2" -> 480
          [] p = "P3" -> 1440]

BREACH_THRESHOLD_TOTAL == 5
AGING_THRESHOLD_24H == 5
MttrWindowDays == 7
SecondsPerMinute == 60

\* the instant the views below are asked at, and the instants the texts of
\* the table can denote
ReadNow == 14 * SecondsPerDay

AgeMinutes ==
    {14, 15, 29, 30, 31, 59, 60, 120, 121, 239, 240, 480, 481, 1439, 1440, 1441}

Ages ==
    {m * SecondsPerMinute + s : m \in AgeMinutes \cup 122..126 \cup 32..34,
                                s \in {0, 59}}
    \cup {MttrWindowDays * SecondsPerDay, (MttrWindowDays + 1) * SecondsPerDay,
          50 * SecondsPerMinute, 35 * SecondsPerMinute, 25 * SecondsPerMinute}

ReadInstants == {ReadNow - a : a \in Ages}

\* iso_to_dt: the instant a text denotes, None for an absent or malformed
\* text; iso_parses tells the two cases apart
iso_parses(s) == Truthy(s) /\ \E t \in ReadInstants : dt_to_iso(t) = s

iso_to_dt(s) ==
    IF iso_parses(s) THEN CHOOSE t \in ReadInstants : dt_to_iso(t) = s ELSE None

\* int((b - a).total_seconds() // 60)
minutes_between(a, b) == (b - a) \div SecondsPerMinute

Max(a, b) == IF a >= b THEN a ELSE b

\* a slice that keeps the whole list
Take_whole(s, n) == s

\* s[:n]
Take(s, n) == SubSeq(s, 1, Min(n, Len(s)))

\* list.sort(key, reverse=True) of the rows of a query without ORDER BY: the
\* sort is stable and the order the query returns the rows in is not
\* determined, so rows with equal keys can come out in any order
RECURSIVE SortedDescending(_, _)
SortedDescending(items, key) ==
    IF items = {} THEN {<<>>}
    ELSE LET top == {x \in items : \A y \in items : key[x] >= key[y]}
         IN  UNION {{<<x>> \o rest : rest \in SortedDescending(items \ {x}, key)} :
                      x \in top}

\* the age of an incident in whole minutes (lines 509-510, 535-536)
age_minutes(now, inc) ==
    LET created == IF iso_parses(inc.created_at) THEN iso_to_dt(inc.created_at)
                   ELSE now
    IN  minutes_between(created, now)

\* SLA_MINUTES.get(priority, 1440)
sla_minutes(inc) ==
    IF inc.priority \in DOMAIN SLA_MINUTES THEN SLA_MINUTES[inc.priority]
    ELSE SLA_MINUTES["P3"]

overdue_minutes(now, inc) == Max(0, age_minutes(now, inc) - sla_minutes(inc))

BreachView(now, inc) ==
    [id |-> inc.id, title |-> inc.title, priority |-> inc.priority,
     status |-> inc.status, created_at |-> inc.created_at,
     age_minutes |-> age_minutes(now, inc),
     sla_minutes |-> sla_minutes(inc),
     overdue_minutes |-> overdue_minutes(now, inc)]

\* a breach test that counts an incident at its budget as overdue
is_breach_at_budget(now, inc) ==
    age_minutes(now, inc) >= sla_minutes(inc) /\ inc.status # "resolved"

\* line 513
is_breach(now, inc) == overdue_minutes(now, inc) > 0 /\ inc.status # "resolved"

\* compute_breaches: the lists the function can return for the rows given
compute_breaches(now, rows) ==
    LET out == {BreachView(now, inc) : inc \in {r \in rows : is_breach(now, r)}}
    IN  SortedDescending(out, [b \in out |-> b.overdue_minutes])

\* a bucket choice with the 15 minute boundary in the first bucket
bucket_of_closed(age) ==
    IF age <= 15 THEN "lt_15m"
    ELSE IF age < 60 THEN "m15_60"
    ELSE IF age < 240 THEN "h1_4"
    ELSE IF age < 1440 THEN "h4_24"
    ELSE "gte_24h"

\* lines 537-546
bucket_of(age) ==
    IF age < 15 THEN "lt_15m"
    ELSE IF age < 60 THEN "m15_60"
    ELSE IF age < 240 THEN "h1_4"
    ELSE IF age < 1440 THEN "h4_24"
    ELSE "gte_24h"

Buckets == {"lt_15m", "m15_60", "h1_4", "h4_24", "gte_24h"}

aging_buckets(now, rows) ==
    [b \in Buckets |->
        Cardinality({inc \in rows :
                       /\ inc.status # "resolved"
                       /\ bucket_of(age_minutes(now, inc)) = b})]

\* a status derivation that turns red on any reason
status_of_any_reason(codes) == IF codes # {} THEN "red" ELSE "green"

\* lines 594-598
status_of(codes) ==
    IF "sla_breach_p0" \in codes THEN "red"
    ELSE IF codes # {} THEN "amber"
    ELSE "green"

\* a duration filter that keeps every pair of instants
mttr_qualifies_any(created_at, resolved_at) ==
    iso_parses(created_at) /\ iso_parses(resolved_at)

\* lines 617-619 and 799-801: cdt and rdt and rdt >= cdt
mttr_qualifies(created_at, resolved_at) ==
    /\ iso_parses(created_at)
    /\ iso_parses(resolved_at)
    /\ iso_to_dt(resolved_at) >= iso_to_dt(created_at)

RECURSIVE Sum(_, _)
Sum(f, items) ==
    IF items = {} THEN 0
    ELSE LET x == CHOOSE y \in items : TRUE
         IN  f[x] + Sum(f, items \ {x})

\* lines 615-622 and 795-807: the durations of the rows that qualify, their
\* count, and int(sum / len) or None
mttr_of(rows) ==
    LET counted == {r \in rows : mttr_qualifies(r.created_at, r.resolved_at)}
        minutes == [r \in counted |->
                      minutes_between(iso_to_dt(r.created_at),
                                      iso_to_dt(r.resolved_at))]
    IN  [counted |-> {r.id : r \in counted},
         resolved_count |-> Cardinality(counted),
         avg_minutes |-> IF counted = {} THEN None
                         ELSE Sum(minutes, counted) \div Cardinality(counted)]

\* reasons whose two thresholds must be exceeded, not only reached
reasons_of_above_threshold(breaches, buckets) ==
    LET p0_breaches == SelectSeq(breaches, LAMBDA b : b.priority = "P0")
        r1 == IF p0_breaches # <<>>
              THEN <<[code |-> "sla_breach_p0",
                      top_incidents |-> Take(p0_breaches, 3)]>>
              ELSE <<>>
        r2 == IF Len(breaches) > BREACH_THRESHOLD_TOTAL
              THEN <<[code |-> "sla_breaches_total",
                      top_incidents |-> Take(breaches, 3)]>>
              ELSE <<>>
        r3 == IF buckets["gte_24h"] > AGING_THRESHOLD_24H
              THEN <<[code |-> "aging_24h",
                      top_incidents |-> Take(breaches, 3)]>>
              ELSE <<>>
    IN  r1 \o r2 \o r3

\* the reasons of lines 564-592, in the order they are appended
reasons_of(breaches, buckets) ==
    LET p0_breaches == SelectSeq(breaches, LAMBDA b : b.priority = "P0")
        r1 == IF p0_breaches # <<>>
              THEN <<[code |-> "sla_breach_p0",
                      top_incidents |-> Take(p0_breaches, 3)]>>
              ELSE <<>>
        r2 == IF Len(breaches) >= BREACH_THRESHOLD_TOTAL
              THEN <<[code |-> "sla_breaches_total",
                      top_incidents |-> Take(breaches, 3)]>>
              ELSE <<>>
        r3 == IF buckets["gte_24h"] >= AGING_THRESHOLD_24H
              THEN <<[code |-> "aging_24h",
                      top_incidents |-> Take(breaches, 3)]>>
              ELSE <<>>
    IN  r1 \o r2 \o r3

\* ops_health with its two samples of utcnow(): now (line 552) and later
\* (line 602); the responses it can give for the table `rows`
ops_health(rows, now, later) ==
    LET incs == {r \in rows : r.status # "resolved"}
        buckets == aging_buckets(now, incs)
        cutoff == later - MttrWindowDays * SecondsPerDay
        mttr_rows == {r \in rows :
                        /\ r.status = "resolved"
                        /\ r.resolved_at # None
                        /\ iso_parses(r.resolved_at)
                        /\ iso_to_dt(r.resolved_at) >= cutoff}
    IN  {[generated_at |-> dt_to_iso(now),
          active_total |-> Cardinality(incs),
          aging_buckets |-> buckets,
          breached_total |-> Len(breaches),
          breached |-> Take(breaches, 100),
          mttr |-> mttr_of(mttr_rows),
          mttr_rows |-> {r.id : r \in mttr_rows},
          score |-> [status |-> status_of({reasons_of(breaches, buckets)[k].code :
                                    k \in DOMAIN reasons_of(breaches, buckets)}),
                     reasons |-> reasons_of(breaches, buckets)]] :
         breaches \in compute_breaches(now, incs)}

\* ---------------------------------------------------------------- kpis
\* ops_kpis: the rows of the window (lines 776-787), their count, and the
\* mean of the durations that qualify
ops_kpis(rows, days, now) ==
    LET cutoff == now - days * SecondsPerDay
        sel == {r \in rows :
                  /\ r.status = "resolved"
                  /\ iso_parses(resolution_ts(r))
                  /\ iso_to_dt(resolution_ts(r)) >= cutoff}
        timed == {r \in sel : r.resolved_at # None /\ r.resolved_at # ""}
    IN  [window_days |-> days,
         resolved_count |-> Cardinality(sel),
         p0_resolved_count |-> Cardinality({r \in sel : r.priority = "P0"}),
         avg_mttr_minutes |-> mttr_of(timed).avg_minutes]

\* ---------------------------------------------------------------- recommendations
TopNs == 1..10

\* a rank that does not advance
rank_after_fixed(recs) == 1

\* rank starts at 1 (line 641) and is incremented after every append
rank_after(recs) == Len(recs) + 1

\* next((r for r in reasons if r.get("code") == code), None): the reasons
\* with the code, of which the first is taken; none is the None case
reasons_with(reasons, code) == SelectSeq(reasons, LAMBDA r : r.code = code)

recommend_if(cond, recs, action_type, targets) ==
    IF cond
    THEN Append(recs, [rank |-> rank_after(recs), action_type |-> action_type,
                       target_incidents |-> targets])
    ELSE recs

\* make_recommendations: rank, action_type and target_incidents of every
\* recommendation (the other fields are fixed texts)
make_recommendations(health, top_n) ==
    LET reasons == health.score.reasons
        breaches == health.breached
        p0_reason == reasons_with(reasons, "sla_breach_p0")
        p0_targets == IF p0_reason = <<>> THEN <<>>
                      ELSE Take(Head(p0_reason).top_incidents, top_n)
        recs1 == recommend_if(p0_reason # <<>>, <<>>,
                              "resolve_p0_breaches", p0_targets)
        recs2 == recommend_if(reasons_with(reasons, "sla_breaches_total") # <<>>,
                              recs1, "resolve_top_breaches", Take(breaches, top_n))
        recs3 == recommend_if(reasons_with(reasons, "aging_24h") # <<>>,
                              recs2, "cleanup_aged_backlog", Take(breaches, top_n))
    IN  recommend_if(TRUE, recs3, "improve_closure_hygiene", <<>>)

\* ---------------------------------------------------------------- read-side views
\* a row of an incident created `age` seconds before ReadNow and not resolved
ActiveRow(id, priority, status, age) ==
    [id |-> id, title |-> id, description |-> "",
     priority |-> priority, status |-> status,
     created_at |-> dt_to_iso(ReadNow - age),
     updated_at |-> dt_to_iso(ReadNow - age),
     resolved_at |-> None, resolved_by |-> None, resolution_notes |-> None]

\* a row of an incident resolved `resolved_age` seconds before ReadNow
ResolvedRow(id, priority, age, resolved_age) ==
    [id |-> id, title |-> id, description |-> "",
     priority |-> priority, status |-> "resolved",
     created_at |-> dt_to_iso(ReadNow - age),
     updated_at |-> dt_to_iso(ReadNow - resolved_age),
     resolved_at |-> dt_to_iso(ReadNow - resolved_age),
     resolved_by |-> "On-call", resolution_notes |-> "fixed"]

CrowdSizes == {0, BREACH_THRESHOLD_TOTAL - 1, BREACH_THRESHOLD_TOTAL}

\* k active P1 incidents, 1..k minutes over their budget
BreachCrowd(k) ==
    {ActiveRow("b" \o ToString(n), "P1", "investigating",
              (SLA_MINUTES["P1"] + n) * SecondsPerMinute) : n \in 1..k}

\* k active P3 incidents exactly 24 hours old
AgedCrowd(k) ==
    {ActiveRow("a" \o ToString(n), "P3", "open",
              SLA_MINUTES["P3"] * SecondsPerMinute) : n \in 1..k}

\* k active P0 incidents, 1..k minutes over their budget
P0Crowd(k) ==
    {ActiveRow("p" \o ToString(n), "P0", "open",
               (SLA_MINUTES["P0"] + n) * SecondsPerMinute) : n \in 1..k}

\* one incident of any priority, at every age around the boundaries
FreeIncidents ==
    {ActiveRow("inc-1", p, "open", m * SecondsPerMinute + s) :
        p \in PRIORITIES, m \in AgeMinutes, s \in {0, 59}}
    \cup {ActiveRow("inc-1", p, "mitigated", m * SecondsPerMinute) :
        p \in PRIORITIES, m \in AgeMinutes}
    \cup {ResolvedRow("inc-1", p, m * SecondsPerMinute, 14 * SecondsPerMinute) :
        p \in PRIORITIES, m \in AgeMinutes}

\* resolved incidents: in 10 minutes, resolved before created, resolved
\* outside the window, resolved at the edge of the window
ResolvedProfiles ==
    {{},
     {ResolvedRow("r1", "P0", 35 * SecondsPerMinute, 25 * SecondsPerMinute)},
     {ResolvedRow("r1", "P0", 35 * SecondsPerMinute, 50 * SecondsPerMinute)},
     {ResolvedRow("r1", "P0", (MttrWindowDays + 1) * SecondsPerDay,
               (MttrWindowDays + 1) * SecondsPerDay)},
     {ResolvedRow("r1", "P0", (MttrWindowDays + 1) * SecondsPerDay,
               MttrWindowDays * SecondsPerDay)}}

SecondResolved ==
    {{}, {ResolvedRow("r2", "P2", 50 * SecondsPerMinute, 25 * SecondsPerMinute)}}

\* the incidents of the first and the last priority at their budget and one
\* minute over it
AtBudget ==
    {f \in FreeIncidents :
        /\ f.priority \in {"P0", "P3"}
        /\ age_minutes(ReadNow, f) - sla_minutes(f) \in {0, 1}}

\* a row whose created_at no parser accepts
MalformedRows ==
    {[ActiveRow("inc-1", "P0", "open", 31 * SecondsPerMinute)
        EXCEPT !.created_at = "yesterday"]}

Tables ==
    {{f} : f \in FreeIncidents \cup MalformedRows}
    \cup {BreachCrowd(b) \cup AgedCrowd(a) \cup {f} :
        b \in CrowdSizes, a \in CrowdSizes, f \in AtBudget}
    \cup {P0Crowd(BREACH_THRESHOLD_TOTAL - 1) \cup BreachCrowd(b) :
        b \in CrowdSizes}
    \cup {r1 \cup r2 \cup {f} :
        r1 \in ResolvedProfiles, r2 \in SecondResolved,
        f \in {ActiveRow("inc-1", "P2", "open", 14 * SecondsPerMinute),
               ResolvedRow("inc-1", "P2", 35 * SecondsPerMinute,
                        14 * SecondsPerMinute)}}

InitReads ==
    /\ \E table \in Tables :
         /\ incidents = [i \in {r.id : r \in table} |->
                            CHOOSE r \in table : r.id = i]
         /\ timeline = [i \in {r.id : r \in table} |->
                           LET r == CHOOSE x \in table : x.id = i
                           IN  add_timeline(<<>>, i, "created", None,
                                            r.priority \o " open",
                                            iso_to_dt(r.created_at))]
    /\ clock = ReadNow
    /\ locked = FALSE
    /\ last = Idle
    /\ calls = <<>>

\* the second sample of utcnow() of a view is at or after the first
LaterSamples == {t \in {clock, clock + 1} : t <= ReadNow + MaxClock}

OpsHealth ==
    /\ last = Idle
    /\ \E later \in LaterSamples :
         /\ \E h \in ops_health(Rows, clock, later) :
              last' = [op |-> "health", now |-> clock, later |-> later,
                       result |-> h]
         /\ clock' = later
    /\ UNCHANGED <<incidents, timeline, locked, calls>>

OpsRecommendations ==
    /\ last = Idle
    /\ \E top_n \in TopNs, later \in LaterSamples :
         /\ \E h \in ops_health(Rows, clock, later) :
              last' = [op |-> "recommendations", top_n |-> top_n,
                       now |-> clock, later |-> later, health |-> h,
                       health_status |-> h.score.status,
                       result |-> make_recommendations(h, top_n)]
         /\ clock' = later
    /\ UNCHANGED <<incidents, timeline, locked, calls>>

OpsKpis ==
    /\ last = Idle
    /\ \E days \in {1, DefaultDays} :
         last' = [op |-> "kpis", now |-> clock,
                  result |-> ops_kpis(Rows, days, clock)]
    /\ UNCHANGED <<incidents, timeline, clock, locked, calls>>

NextReads ==
    \/ OpsHealth
    \/ OpsRecommendations
    \/ OpsKpis
    \/ Return

SpecReads == InitReads /\ [][NextReads]_vars

\* ---------------------------------------------------------------- triage
\* texts are sequences of characters, so that `h in text` is a search
UpperCase ==
    <<"A", "B", "C", "D", "E", "F", "G", "H", "I", "J", "K", "L", "M", "N", "O", "P", "Q", "R", "S", "T", "U", "V", "W", "X", "Y", "Z">>

LowerCase ==
    <<"a", "b", "c", "d", "e", "f", "g", "h", "i", "j", "k", "l", "m", "n", "o", "p", "q", "r", "s", "t", "u", "v", "w", "x", "y", "z">>

\* str.lower() on the letters A-Z
LowerChar(c) ==
    IF \E k \in DOMAIN UpperCase : UpperCase[k] = c
    THEN LowerCase[CHOOSE k \in DOMAIN UpperCase : UpperCase[k] = c]
    ELSE c

LowerText(text) == [k \in DOMAIN text |-> LowerChar(text[k])]

\* h in text
contains(text, h) ==
    \E i \in 1..(Len(text) - Len(h) + 1) : SubSeq(text, i, i + Len(h) - 1) = h

p0_hits ==
    <<<<"c", "h", "e", "c", "k", "o", "u", "t">>,
      <<"p", "a", "y", "m", "e", "n", "t">>,
      <<"o", "u", "t", "a", "g", "e">>,
      <<"5", "0", "0">>,
      <<"d", "o", "w", "n">>,
      <<"f", "a", "i", "l", "e", "d">>,
      <<"c", "r", "i", "t", "i", "c", "a", "l">>,
      <<"s", "e", "v", "0">>,
      <<"p", "0">>>>

p1_hits ==
    <<<<"a", "c", "t", "i", "v", "a", "t", "i", "o", "n">>,
      <<"d", "e", "l", "a", "y">>,
      <<"d", "e", "g", "r", "a", "d", "e", "d">>,
      <<"l", "a", "t", "e", "n", "c", "y">>,
      <<"t", "i", "m", "e", "o", "u", "t">>,
      <<"s", "e", "v", "1">>,
      <<"p", "1">>>>

p2_hits ==
    <<<<"s", "l", "o", "w">>,
      <<"b", "a", "c", "k", "l", "o", "g">>,
      <<"r", "e", "t", "r", "y">>,
      <<"w", "e", "b", "h", "o", "o", "k">>,
      <<"b", "i", "l", "l", "i", "n", "g">>,
      <<"p", "2">>>>

outage == <<"o", "u", "t", "a", "g", "e">>
payment == <<"p", "a", "y", "m", "e", "n", "t">>
failed == <<"f", "a", "i", "l", "e", "d">>
activation == <<"a", "c", "t", "i", "v", "a", "t", "i", "o", "n">>
delay == <<"d", "e", "l", "a", "y">>

\* f"{title}\n{desc}".lower()
triage_text(title, desc) == LowerText(title \o <<"\n">> \o desc)

\* sum(1 for h in hits if h in text)
count(hits, text) == Cardinality({k \in DOMAIN hits : contains(text, hits[k])})

\* line 840
is_p0(text) ==
    \/ count(p0_hits, text) >= 2
    \/ contains(text, outage)
    \/ contains(text, payment) /\ contains(text, failed)

\* a second rule that one hit satisfies
is_p1_on_one_hit(text) ==
    \/ count(p1_hits, text) >= 1
    \/ contains(text, activation) /\ contains(text, delay)

\* line 853
is_p1(text) ==
    \/ count(p1_hits, text) >= 2
    \/ contains(text, activation) /\ contains(text, delay)

\* line 866
is_p2(text) == count(p2_hits, text) >= 1

\* triage_rules: the priority and the number of next steps returned
triage_rules(title, desc) ==
    LET text == triage_text(title, desc)
    IN  IF is_p0(text) THEN [suggested_priority |-> "P0", steps |-> 5]
        ELSE IF is_p1(text) THEN [suggested_priority |-> "P1", steps |-> 5]
        ELSE IF is_p2(text) THEN [suggested_priority |-> "P2", steps |-> 4]
        ELSE [suggested_priority |-> "P3", steps |-> 3]

reported == <<" ", "r", "e", "p", "o", "r", "t", "e", "d">>

TitleWords ==
    {<<"O", "u", "t", "a", "g", "e">>,
     <<"p", "a", "y", "m", "e", "n", "t">>,
     <<"P", "A", "Y", "M", "E", "N", "T">>,
     <<"c", "h", "e", "c", "k", "o", "u", "t">>,
     <<"c", "o", "u", "n", "t", "d", "o", "w", "n">>,
     <<"A", "c", "t", "i", "v", "a", "t", "i", "o", "n">>,
     <<"l", "a", "t", "e", "n", "c", "y">>,
     <<"t", "i", "m", "e", "o", "u", "t">>,
     <<"B", "i", "l", "l", "i", "n", "g">>,
     <<"h", "t", "t", "p", "2">>,
     <<"l", "o", "g", "i", "n">>,
     <<"s", "e", "v", "1">>}

DescriptionWords ==
    {<<"f", "a", "i", "l", "e", "d">>,
     <<"d", "e", "l", "a", "y">>,
     <<"l", "a", "t", "e", "n", "c", "y">>,
     <<"s", "l", "o", "w">>,
     <<"d", "o", "w", "n">>,
     <<"n", "o", "t", "h", "i", "n", "g">>,
     <<"P", "a", "y", "m", "e", "n", "t">>,
     <<"d", "e", "g", "r", "a", "d", "e", "d">>,
     <<"p", "1">>,
     <<"r", "e", "t", "r", "y">>}

CheckoutOutage ==
    [title |-> <<"C", "h", "e", "c", "k", "o", "u", "t", " ", "o", "u", "t", "a", "g", "e">>,
     description |-> <<"P", "a", "y", "m", "e", "n", "t", " ", "f", "a", "i", "l", "i", "n", "g", " ", "f", "o", "r", " ", "m", "a", "n", "y", " ", "c", "u", "s", "t", "o", "m", "e", "r", "s">>]

BillingPortalSlow ==
    [title |-> <<"B", "i", "l", "l", "i", "n", "g", " ", "p", "o", "r", "t", "a", "l", " ", "s", "l", "o", "w">>,
     description |-> <<"L", "a", "t", "e", "n", "c", "y", " ", "o", "v", "e", "r", " ", "3", "s", " ", "i", "n", " ", "E", "U", " ", "r", "e", "g", "i", "o", "n">>]

TriageRequests ==
    {[title |-> t, description |-> d \o reported] :
        t \in TitleWords, d \in DescriptionWords}
    \cup {CheckoutOutage, BillingPortalSlow}

InitTriage ==
    /\ incidents = <<>>
    /\ timeline = <<>>
    /\ clock = 0
    /\ locked = FALSE
    /\ last = Idle
    /\ calls = <<>>

Triage ==
    /\ last = Idle
    /\ \E payload \in TriageRequests :
         last' = [op |-> "triage", payload |-> payload,
                  result |-> triage_rules(payload.title, payload.description)]
    /\ UNCHANGED <<incidents, timeline, clock, locked, calls>>

NextTriage ==
    \/ Triage
    \/ Return

SpecTriage == InitTriage /\ [][NextTriage]_vars

\* ================================================================ properties
\* the mutation in service (create or patch) and the incident it addresses
Mutating == last.op \in {"create", "patch"}
Patching == last.op = "patch" /\ last.id \in DOMAIN last.incidents
Before == last.incidents[last.id]
After == incidents[last.id]
Requested == normalize_status(last.payload.status)
StoreUnchanged == incidents = last.incidents /\ timeline = last.timeline

\* the timeline rows the mutation in service has committed
Appended ==
    LET n == IF last.id \in DOMAIN last.timeline THEN Len(last.timeline[last.id]) ELSE 0
    IN  SubSeq(timeline[last.id], n + 1, Len(timeline[last.id]))

CountOf(events, kinds) ==
    Cardinality({k \in DOMAIN events : events[k].event_type \in kinds})

Edges ==
    {<<"open", "investigating">>, <<"investigating", "mitigated">>,
     <<"investigating", "resolved">>, <<"mitigated", "resolved">>}

\* C1: once an incident is stored as resolved, a patch never changes its
\* status: a request for open, investigating or mitigated is rejected with
\* TransitionError and the stored status stays resolved.
C1_ResolvedIsTerminal ==
    (Patching /\ Before.status = "resolved") =>
        /\ After.status = "resolved"
        /\ Requested \in {"open", "investigating", "mitigated"} =>
               (last.result = "TransitionError" /\ StoreUnchanged)

C1_Witness ==
    /\ Patching
    /\ Before.status = "resolved"
    /\ Requested = "mitigated"
    /\ last.result = "TransitionError"
    /\ After.status = "resolved"

\* C2: the stored status changes only along the four direct edges; a patch
\* whose requested status differs from the current one and is no direct edge
\* fails with TransitionError and changes neither incident nor timeline.
C2_OnlyDirectEdges ==
    Patching =>
        /\ After.status # Before.status => <<Before.status, After.status>> \in Edges
        /\ (/\ Requested # None
            /\ Requested # Before.status
            /\ <<Before.status, Requested>> \notin Edges)
           => (last.result = "TransitionError" /\ StoreUnchanged)

C2_Witness ==
    /\ Patching
    /\ Before.status = "mitigated"
    /\ Requested = "investigating"
    /\ last.payload.priority = "p1" /\ Before.priority # "P1"
    /\ last.payload.note = " hi "
    /\ last.result = "TransitionError"
    /\ StoreUnchanged

\* the resolve metadata of the patch in service, as the request carries it
NoResolvedBy == ~Truthy(last.payload.resolved_by)
NoResolutionNotes ==
    \/ ~Truthy(last.payload.resolution_notes)
    \/ Strip(last.payload.resolution_notes) = ""
NonBlankNote == last.payload.note # None /\ Strip(last.payload.note) # ""
InvalidPriority ==
    last.payload.priority # None /\ normalize_priority(last.payload.priority) = None

\* the case of C3: resolved is requested on a non-resolved incident without
\* resolved_by or without non-blank resolution_notes
ResolvingUnqualified ==
    /\ Patching
    /\ Before.status # "resolved"
    /\ Requested = "resolved"
    /\ NoResolvedBy \/ NoResolutionNotes

\* C3 as stated: such a patch always fails with PreconditionError and leaves
\* the stored incident unchanged.
C3_AlwaysPreconditionError ==
    ResolvingUnqualified => (last.result = "PreconditionError" /\ StoreUnchanged)

\* C3 amended: such a patch always fails and leaves the stored incident and
\* timeline unchanged. On an open incident the error is TransitionError. On an
\* investigating or mitigated incident it is PreconditionError when the
\* priority of the patch is absent or valid, and ValidationError when it is
\* invalid, unless a write of the patch (a different priority, a note) is
\* refused because the store is write-locked by an unclosed connection.
C3_UnqualifiedResolveFails ==
    ResolvingUnqualified =>
        /\ last.result # "ok"
        /\ StoreUnchanged
        /\ Before.status = "open" => last.result = "TransitionError"
        /\ last.result = "OperationalError" => last.locked
        /\ (Before.status # "open" /\ last.result # "OperationalError") =>
              IF InvalidPriority
              THEN last.result = "ValidationError"
              ELSE last.result = "PreconditionError"

C3_Witness ==
    /\ ResolvingUnqualified
    /\ Before.status = "investigating"
    /\ last.payload.priority = "p1" /\ Before.priority # "P1"
    /\ last.payload.note = " hi "
    /\ last.payload.resolved_by = " On-call "
    /\ last.payload.resolution_notes = "  "
    /\ last.result = "PreconditionError"
    /\ last.wrote
    /\ StoreUnchanged

\* the resolve branch of the patch in service was committed
EnteredResolved ==
    Patching /\ last.result = "ok"
    /\ Before.status # "resolved" /\ After.status = "resolved"

\* C4: a mutation that ends in an error leaves the incidents and their
\* committed timelines exactly as before the call, whatever it had written
\* before the failing check; a successful create commits the row together with
\* its creation event, and a successful patch commits each field change
\* together with its timeline events.
C4_AllOrNothing ==
    /\ DOMAIN incidents = DOMAIN timeline
    /\ Mutating =>
        /\ last.result # "ok" => StoreUnchanged
        /\ (last.op = "create" /\ last.result = "ok") =>
              /\ last.id \notin DOMAIN last.incidents
              /\ last.id \in DOMAIN incidents
              /\ Len(timeline[last.id]) = 1
              /\ timeline[last.id][1].event_type = "created"
              /\ timeline[last.id][1].new_value = After.priority \o " open"
        /\ (Patching /\ last.result = "ok") =>
              /\ After.priority # Before.priority
                    <=> CountOf(Appended, {"priority_changed"}) = 1
              /\ After.priority = Before.priority
                    <=> CountOf(Appended, {"priority_changed"}) = 0
              /\ After.status # Before.status
                    <=> CountOf(Appended, {"status_changed"}) = 1
              /\ After.status = Before.status
                    <=> CountOf(Appended, {"status_changed"}) = 0
              /\ After.resolved_at # Before.resolved_at
                    <=> CountOf(Appended, {"resolved_at"}) = 1
              /\ After.resolved_by # Before.resolved_by
                    <=> CountOf(Appended, {"resolved_by"}) = 1
              /\ NonBlankNote <=> CountOf(Appended, {"note_added"}) = 1

C4_Witness ==
    /\ Patching
    /\ Before.status = "investigating"
    /\ Requested = "resolved"
    /\ last.payload.priority = "p1" /\ Before.priority # "P1"
    /\ last.payload.note = " hi "
    /\ last.payload.resolved_by = "Nobody"
    /\ last.payload.resolution_notes = " fixed "
    /\ last.result = "ValidationError"
    /\ last.wrote
    /\ StoreUnchanged

\* C5: every stored incident has resolved_at, resolved_by and
\* resolution_notes all absent while its status is not resolved, and all
\* present while it is resolved, with resolved_by in ROLES and
\* resolution_notes non-blank; a patch of a resolved incident keeps the three
\* values, and a patch that supplies resolved_by or resolution_notes without
\* entering resolved sets none of them.
C5_ResolutionFields ==
    /\ \A i \in DOMAIN incidents :
         LET r == incidents[i]
         IN  IF r.status = "resolved"
             THEN /\ r.resolved_at # None
                  /\ r.resolved_by \in ROLES
                  /\ r.resolution_notes \notin {None, "", "  "}
                  /\ Strip(r.resolution_notes) = r.resolution_notes
             ELSE /\ r.resolved_at = None
                  /\ r.resolved_by = None
                  /\ r.resolution_notes = None
    /\ (Patching /\ Before.status = "resolved") =>
         /\ After.resolved_at = Before.resolved_at
         /\ After.resolved_by = Before.resolved_by
         /\ After.resolution_notes = Before.resolution_notes
    /\ (Patching /\ last.result = "ok" /\ Requested # "resolved") =>
         /\ After.resolved_at = None
         /\ After.resolved_by = None
         /\ After.resolution_notes = None

C5_Witness ==
    /\ Patching
    /\ Before.status = "investigating"
    /\ Requested = "mitigated"
    /\ last.payload.resolved_by = " On-call "
    /\ last.payload.resolution_notes = " fixed "
    /\ last.result = "ok"
    /\ After.status = "mitigated"
    /\ After.resolved_by = None

\* the case of C6: the first patch of a fresh incident asks for resolved with
\* a valid role and non-blank notes
Qualified ==
    /\ Requested = "resolved"
    /\ normalize_role(last.payload.resolved_by) # None
    /\ ~NoResolutionNotes
    /\ ~InvalidPriority

FirstPatchResolves ==
    /\ Patching
    /\ Before.status = "open"
    /\ Len(last.timeline[last.id]) = 1
    /\ Qualified

\* the read side after the incident in service was resolved
ShownAsResolved ==
    /\ \A rows \in active_incidents(DefaultActiveLimit) : last.id \notin Ids(rows)
    /\ \A rows \in list_incidents("resolved", DefaultDays, DefaultListLimit, clock) :
          last.id \in Ids(rows)
    /\ After.resolved_at # None
    /\ After.resolved_at = After.updated_at

\* C6 as stated: after create, a first patch that requests resolved with a
\* valid role and non-blank notes succeeds, and the incident is then absent
\* from the active view, present in the resolved listing, with resolved_at
\* set and equal to updated_at.
C6_ResolveRightAfterCreate ==
    FirstPatchResolves => (last.result = "ok" /\ ShownAsResolved)

\* C6 amended: after create, a first patch that requests resolved is rejected
\* with TransitionError and the incident stays open and in the active view;
\* on an investigating or mitigated incident such a patch succeeds unless the
\* store is write-locked by an unclosed connection, and every patch that
\* enters resolved leaves the incident absent from the active view, present
\* in the resolved listing, with resolved_at set and equal to updated_at.
C6_ResolveAfterInvestigating ==
    /\ FirstPatchResolves =>
         /\ last.result = "TransitionError"
         /\ StoreUnchanged
         /\ \A rows \in active_incidents(DefaultActiveLimit) : last.id \in Ids(rows)
    /\ (Patching /\ Before.status \in {"investigating", "mitigated"} /\ Qualified) =>
         \/ last.result = "ok" /\ EnteredResolved
         \/ last.result = "OperationalError" /\ last.locked
    /\ EnteredResolved => ShownAsResolved

C6_Witness ==
    /\ EnteredResolved
    /\ Before.status = "investigating"
    /\ Before.priority = "P2"
    /\ Qualified
    /\ ShownAsResolved
    /\ After.resolved_by = "On-call"
    /\ After.resolution_notes = "fixed"

\* the case of C7: a successful patch with the current status, an absent or
\* equal priority, and a non-blank note
NoteOnly ==
    /\ Patching
    /\ last.result = "ok"
    /\ Requested = Before.status
    /\ \/ last.payload.priority = None
       \/ normalize_priority(last.payload.priority) = Before.priority
    /\ NonBlankNote

\* C7: a successful patch whose status equals the current one, whose priority
\* is absent or equal to the current one, and which carries a non-blank note
\* appends exactly one note_added event and no status_changed and no
\* priority_changed event.
C7_NoteOnlyPatch ==
    NoteOnly =>
        /\ CountOf(Appended, {"note_added"}) = 1
        /\ CountOf(Appended, {"status_changed"}) = 0
        /\ CountOf(Appended, {"priority_changed"}) = 0

C7_Witness ==
    /\ NoteOnly
    /\ Before.status = "investigating"
    /\ last.payload.priority = "p1" /\ Before.priority = "P1"
    /\ CountOf(Appended, {"note_added"}) = 1

\* the number of discrete changes of the mutation in service
Changes ==
    IF last.op = "create" THEN 1
    ELSE (IF After.priority # Before.priority THEN 1 ELSE 0)
         + (IF NonBlankNote THEN 1 ELSE 0)
         + (IF EnteredResolved THEN 3 ELSE 0)
         + (IF After.status # Before.status THEN 1 ELSE 0)

\* C8 as stated: a successful create appends exactly one event, and a
\* successful patch appends exactly one event per priority change, one per
\* non-blank note, three on entering resolved, one per status change, and no
\* other event.
C8_OneEventPerChange ==
    (Mutating /\ last.result = "ok") => Len(Appended) = Changes

\* C9: every step keeps every incident and every committed timeline event:
\* the timeline of an incident after the step starts with its timeline before
\* the step, row for row.
C9_AppendOnly ==
    [][\A i \in DOMAIN incidents :
          /\ i \in DOMAIN incidents'
          /\ i \in DOMAIN timeline'
          /\ Len(timeline'[i]) >= Len(timeline[i])
          /\ SubSeq(timeline'[i], 1, Len(timeline[i])) = timeline[i]]_vars

C9_Witness ==
    /\ Patching
    /\ last.result = "ok"
    /\ Len(last.timeline[last.id]) >= 3
    /\ Len(Appended) >= 2
    /\ SubSeq(timeline[last.id], 1, Len(last.timeline[last.id])) = last.timeline[last.id]

\* the timestamps the mutation in service has written
Written ==
    {Appended[k].created_at : k \in DOMAIN Appended}
    \cup {After.updated_at}
    \cup (IF last.op = "create" THEN {After.created_at} ELSE {})
    \cup (IF EnteredResolved THEN {After.resolved_at} ELSE {})

\* C10 as stated: within one successful create or patch every timestamp
\* written is the same instant.
C10_OneInstantPerOperation ==
    (Mutating /\ last.result = "ok") => Cardinality(Written) = 1

\* the concurrent calls have all returned
AllDone == last.op = "concurrent" /\ \A c \in Callers : calls[c].pc = "done"

\* a store without its timestamps: the row's fields and the timeline's events
Shape(row, tl) ==
    [priority |-> row.priority,
     status |-> row.status,
     resolved |-> row.resolved_at # None,
     resolved_by |-> row.resolved_by,
     resolution_notes |-> row.resolution_notes,
     events |-> [k \in DOMAIN tl |->
                   <<tl[k].event_type,
                     IF tl[k].event_type = "resolved_at" THEN None # tl[k].old_value
                     ELSE tl[k].old_value,
                     IF tl[k].event_type = "resolved_at" THEN None # tl[k].new_value
                     ELSE tl[k].new_value>>]]

\* the store after one call served alone
ServedAlone(store, id, payload) ==
    LET o == patch_incident(store.row, store.tl, id, payload, [k \in Nat |-> 0])
    IN  IF o.result = "ok" THEN [row |-> o.row, tl |-> o.tl] ELSE store

\* the stores the calls can leave when served one after another, in either
\* order; a call refused by the store (database is locked) has not run
SerialShapes ==
    LET id == "inc-1"
        start == [row |-> last.incidents[id], tl |-> last.timeline[id]]
        ran == {c \in Callers : calls[c].result # "OperationalError"}
        orders == {f \in [1..Cardinality(ran) -> ran] :
                     \A i, j \in DOMAIN f : i # j => f[i] # f[j]}
        RECURSIVE run(_, _)
        run(f, k) == IF k = 0 THEN start
                     ELSE ServedAlone(run(f, k - 1), id, calls[f[k]].payload)
    IN  {LET e == run(f, Cardinality(ran)) IN Shape(e.row, e.tl) : f \in orders}

\* C11 as stated: when two patch calls on the same incident interleave, the
\* committed incident and timeline are those of the two calls served in some
\* serial order.
C11_SerialEquivalent ==
    AllDone => Shape(incidents["inc-1"], timeline["inc-1"]) \in SerialShapes

\* ---------------------------------------------------------------- health claims
HealthServed == last.op \in {"health", "recommendations"}
Health == IF last.op = "recommendations" THEN last.health ELSE last.result
Breached == Health.breached
Active == {r \in Rows : r.status # "resolved"}
AgeOf(r) == age_minutes(last.now, r)
ReasonCodes ==
    {Health.score.reasons[k].code : k \in DOMAIN Health.score.reasons}

\* C12: the health status is red exactly when some incident that is not
\* resolved has priority P0 and an age of more than 30 whole minutes,
\* whatever the number of breaches and of incidents aged 24 hours or more.
C12_RedIffP0Breach ==
    HealthServed =>
        (Health.score.status = "red"
            <=> \E r \in Active : r.priority = "P0" /\ AgeOf(r) > 30)

\* the status is not red although five incidents breach and five are aged
C12_Witness ==
    /\ last.op = "health"
    /\ Health.score.status = "amber"
    /\ Health.breached_total >= 5
    /\ Health.aging_buckets["gte_24h"] >= 5
    /\ \E r \in Active : r.priority = "P0" /\ AgeOf(r) = 30

ClaimedBudget ==
    [p \in PRIORITIES |->
        CASE p = "P0" -> 30 [] p = "P1" -> 120 [] p = "P2" -> 480 [] p = "P3" -> 1440]

OverBudget == {r \in Active : AgeOf(r) > ClaimedBudget[r.priority]}

\* C13: the breach report lists exactly the incidents that are not resolved
\* and older than the budget of their priority, each once, with overdue =
\* age - budget, in descending order of overdue; a P0 incident aged 31 is
\* reported with overdue 1, one aged 29 or 30 is not reported.
C13_BreachReport ==
    HealthServed =>
        /\ {Breached[k].id : k \in DOMAIN Breached} = {r.id : r \in OverBudget}
        /\ Len(Breached) = Cardinality(OverBudget)
        /\ \A k \in DOMAIN Breached :
             /\ Breached[k].age_minutes = AgeOf(incidents[Breached[k].id])
             /\ Breached[k].overdue_minutes =
                  Breached[k].age_minutes - ClaimedBudget[Breached[k].priority]
             /\ Breached[k].status # "resolved"
        /\ \A k \in 1..(Len(Breached) - 1) :
             Breached[k].overdue_minutes >= Breached[k + 1].overdue_minutes
        /\ \A r \in Active :
             r.priority = "P0" =>
                /\ AgeOf(r) = 31 =>
                     \E k \in DOMAIN Breached :
                        Breached[k].id = r.id /\ Breached[k].overdue_minutes = 1
                /\ AgeOf(r) \in {29, 30} =>
                     \A k \in DOMAIN Breached : Breached[k].id # r.id

\* a report of six breaches that ends with the P0 incident aged 31
C13_Witness ==
    /\ last.op = "health"
    /\ Len(Breached) = 6
    /\ Breached[6].priority = "P0"
    /\ Breached[6].overdue_minutes = 1
    /\ Breached[1].overdue_minutes = 5

\* the bucket the boundaries of the claim give an age
ClaimedBucket(age) ==
    CASE age < 15 -> "lt_15m"
      [] age >= 15 /\ age < 60 -> "m15_60"
      [] age >= 60 /\ age < 240 -> "h1_4"
      [] age >= 240 /\ age < 1440 -> "h4_24"
      [] age >= 1440 -> "gte_24h"

BucketTotal ==
    Health.aging_buckets["lt_15m"] + Health.aging_buckets["m15_60"]
    + Health.aging_buckets["h1_4"] + Health.aging_buckets["h4_24"]
    + Health.aging_buckets["gte_24h"]

BoundaryAges ==
    {<<14, "lt_15m">>, <<15, "m15_60">>, <<59, "m15_60">>, <<60, "h1_4">>,
     <<239, "h1_4">>, <<240, "h4_24">>, <<1439, "h4_24">>, <<1440, "gte_24h">>}

\* C14: every incident that is not resolved is counted in exactly one of the
\* five aging buckets and resolved incidents in none, so the counts sum to the
\* number of active incidents; the boundaries are closed-open (14 -> <15m,
\* 15 and 59 -> 15-60m, 60 and 239 -> 1-4h, 240 and 1439 -> 4-24h, 1440 -> >=24h).
C14_BucketsPartition ==
    HealthServed =>
        /\ DOMAIN Health.aging_buckets = Buckets
        /\ \A b \in Buckets :
             Health.aging_buckets[b] =
                Cardinality({r \in Active : ClaimedBucket(AgeOf(r)) = b})
        /\ BucketTotal = Cardinality(Active)
        /\ Health.active_total = Cardinality(Active)
        /\ \A r \in Active : \A e \in BoundaryAges :
             AgeOf(r) = e[1] => Health.aging_buckets[e[2]] >= 1

\* ten active incidents in two buckets next to a resolved one in none
C14_Witness ==
    /\ last.op = "health"
    /\ Cardinality(Rows) = 11
    /\ Health.active_total = 10
    /\ Health.aging_buckets["h1_4"] = 5
    /\ Health.aging_buckets["gte_24h"] = 5
    /\ BucketTotal = 10

\* ---------------------------------------------------------------- MTTR claims
\* the resolved incidents of the window that starts at `cutoff`, and those of
\* them whose resolved_at is not earlier than their created_at
ResolvedSince(cutoff) ==
    {r \in Rows : /\ r.status = "resolved"
                  /\ iso_parses(r.resolved_at)
                  /\ iso_to_dt(r.resolved_at) >= cutoff}

Backwards(r) ==
    /\ iso_parses(r.resolved_at)
    /\ iso_parses(r.created_at)
    /\ iso_to_dt(r.resolved_at) < iso_to_dt(r.created_at)

Forwards(cutoff) == {r \in ResolvedSince(cutoff) : ~Backwards(r)}

Duration == [r \in Rows |->
                IF iso_parses(r.resolved_at) /\ iso_parses(r.created_at)
                THEN (iso_to_dt(r.resolved_at) - iso_to_dt(r.created_at)) \div 60
                ELSE 0]

MeanOf(rows) ==
    IF rows = {} THEN None ELSE Sum(Duration, rows) \div Cardinality(rows)

HealthCutoff == last.later - 7 * SecondsPerDay
KpiCutoff == last.now - last.result.window_days * SecondsPerDay

\* C15: the mean time to resolve is taken over the incidents resolved inside
\* the trailing window whose resolved_at is not earlier than created_at: an
\* incident resolved before it was created adds nothing to the sum and to the
\* count, and the mean is null when no incident qualifies.
C15_MttrQualifyingOnly ==
    /\ HealthServed =>
         /\ Health.mttr.counted = {r.id : r \in Forwards(HealthCutoff)}
         /\ Health.mttr.resolved_count = Cardinality(Forwards(HealthCutoff))
         /\ Health.mttr.avg_minutes = MeanOf(Forwards(HealthCutoff))
    /\ last.op = "kpis" =>
         last.result.avg_mttr_minutes = MeanOf(Forwards(KpiCutoff))

\* one incident resolved before it was created is left out of a mean of two
C15_Witness ==
    /\ last.op = "health"
    /\ \E r \in ResolvedSince(HealthCutoff) : Backwards(r)
    /\ Health.mttr.resolved_count = 2
    /\ Health.mttr.avg_minutes = 23

\* ---------------------------------------------------------------- recommendation claims
ActionIf(code, action_type) ==
    IF code \in ReasonCodes THEN <<action_type>> ELSE <<>>

ExpectedActions ==
    ActionIf("sla_breach_p0", "resolve_p0_breaches")
    \o ActionIf("sla_breaches_total", "resolve_top_breaches")
    \o ActionIf("aging_24h", "cleanup_aged_backlog")
    \o <<"improve_closure_hygiene">>

\* C16: for every health snapshot and every top_n in 1..10 the recommendations
\* are the actions of the reasons that fired, in the order P0 breaches, top
\* overdue breaches, aged backlog, followed by one closure-hygiene action with
\* no targets; the action at position i has rank i, so with no reason the list
\* is the hygiene action alone with rank 1.
C16_RecommendationOrder ==
    last.op = "recommendations" =>
        /\ last.top_n \in 1..10
        /\ [k \in DOMAIN last.result |-> last.result[k].action_type] = ExpectedActions
        /\ \A k \in DOMAIN last.result : last.result[k].rank = k
        /\ last.result[Len(last.result)].target_incidents = <<>>
        /\ ReasonCodes = {} =>
             /\ Len(last.result) = 1
             /\ last.result[1].rank = 1
             /\ last.result[1].action_type = "improve_closure_hygiene"

\* all three reasons fired: four recommendations, the hygiene action is fourth
C16_Witness ==
    /\ last.op = "recommendations"
    /\ last.top_n = 10
    /\ ReasonCodes = {"sla_breach_p0", "sla_breaches_total", "aging_24h"}
    /\ Len(last.result) = 4
    /\ last.result[4].rank = 4
    /\ Len(last.result[2].target_incidents) = 6

\* ---------------------------------------------------------------- triage claims
TriageText == triage_text(last.payload.title, last.payload.description)

\* the number of keywords of a list found in the text
Hits(keywords) ==
    Cardinality({k \in DOMAIN keywords : contains(TriageText, keywords[k])})

FirstMatch ==
    IF \/ Hits(p0_hits) >= 2
       \/ contains(TriageText, outage)
       \/ contains(TriageText, payment) /\ contains(TriageText, failed)
    THEN "P0"
    ELSE IF \/ Hits(p1_hits) >= 2
            \/ contains(TriageText, activation) /\ contains(TriageText, delay)
    THEN "P1"
    ELSE IF Hits(p2_hits) >= 1 THEN "P2"
    ELSE "P3"

\* C17: the classifier gives the first priority of the ordered policy that
\* matches the case-folded title and description (P0 on two P0 keywords, on
\* outage, or on payment with failed; else P1 on two P1 keywords or on
\* activation with delay; else P2 on one P2 keyword; else P3); "Checkout
\* outage" / "Payment failing for many customers" gives P0, "Billing portal
\* slow" / "Latency over 3s in EU region" gives P2, and requests with equal
\* text get equal answers.
C17_FirstMatchPolicy ==
    last.op = "triage" =>
        /\ last.result.suggested_priority = FirstMatch
        /\ last.payload = CheckoutOutage => last.result.suggested_priority = "P0"
        /\ last.payload = BillingPortalSlow => last.result.suggested_priority = "P2"
        /\ \A q \in TriageRequests :
             triage_text(q.title, q.description) = TriageText =>
                triage_rules(q.title, q.description) = last.result

\* one P1 keyword next to two P2 keywords is classified P2
C17_Witness ==
    /\ last.op = "triage"
    /\ last.payload = BillingPortalSlow
    /\ Hits(p1_hits) = 1
    /\ Hits(p2_hits) = 2
    /\ Hits(p0_hits) = 0
    /\ last.result.suggested_priority = "P2"

\* ---------------------------------------------------------------- same-status patches
SameStatus == Patching /\ Requested = Before.status

\* C18: a patch whose requested status is the status the incident already has
\* is permitted in every lifecycle state, resolved included: it never fails
\* with TransitionError or PreconditionError, whatever resolve metadata it
\* lacks; when it succeeds the status is unchanged, a supplied priority of the
\* fixed set is the stored priority, and a non-blank note is recorded.
C18_SameStatusPermitted ==
    SameStatus =>
        /\ last.result \notin {"TransitionError", "PreconditionError"}
        /\ After.status = Before.status
        /\ last.result = "ok" =>
             /\ last.payload.priority # None =>
                  /\ After.priority = normalize_priority(last.payload.priority)
                  /\ After.priority \in PRIORITIES
             /\ last.payload.priority = None => After.priority = Before.priority
             /\ NonBlankNote => CountOf(Appended, {"note_added"}) = 1
        /\ last.result # "ok" =>
             \/ last.result = "ValidationError" /\ InvalidPriority
             \/ last.result = "OperationalError" /\ last.locked

\* a resolved incident is patched with status resolved, no role and no
\* notes, and gets another priority
C18_Witness ==
    /\ SameStatus
    /\ Before.status = "resolved"
    /\ NoResolvedBy
    /\ NoResolutionNotes
    /\ last.result = "ok"
    /\ After.priority = "P1"
    /\ Before.priority = "P2"
    /\ After.status = "resolved"

\* ---------------------------------------------------------------- resolve events
\* the k-th last event the patch in service appended
FromEnd(k) == Appended[Len(Appended) - k]

AllEvents ==
    UNION {{timeline[i][k] : k \in DOMAIN timeline[i]} : i \in DOMAIN timeline}

RepeatsPriority ==
    /\ last.payload.priority # None
    /\ normalize_priority(last.payload.priority) = Before.priority

\* C20: in every reachable state every priority_changed event and every
\* status_changed event has an old value different from its new value; a
\* patch that repeats the priority or the status the incident has records no
\* such event for it.
C20_NoNoOpEvents ==
    /\ \A e \in AllEvents :
         e.event_type \in {"priority_changed", "status_changed"} =>
            e.old_value # e.new_value
    /\ Patching /\ last.result = "ok" =>
         /\ RepeatsPriority => CountOf(Appended, {"priority_changed"}) = 0
         /\ Requested = Before.status => CountOf(Appended, {"status_changed"}) = 0

\* after a priority change and a status change were recorded, a patch that
\* repeats both values is served and appends nothing
C20_Witness ==
    /\ Patching
    /\ last.result = "ok"
    /\ RepeatsPriority
    /\ Requested = Before.status
    /\ Appended = <<>>
    /\ \E e \in AllEvents : e.event_type = "priority_changed"
    /\ \E e \in AllEvents : e.event_type = "status_changed"

\* ---------------------------------------------------------------- checks and writes
\* C21 as stated: a patch that asks for resolved without the role or without
\* the resolution notes has issued no write to the incident row and no
\* timeline insert when the check of the role and the notes fails, also when
\* it carries a different priority or a note.
C21_ChecksBeforeWrites ==
    ResolvingUnqualified => ~last.wrote

\* ---------------------------------------------------------------- reason claims
P0OverBudget == {r \in OverBudget : r.priority = "P0"}
Aged == {r \in Active : AgeOf(r) >= 1440}

ClaimedCodes ==
    (IF P0OverBudget # {} THEN {"sla_breach_p0"} ELSE {})
    \cup (IF Cardinality(OverBudget) >= 5 THEN {"sla_breaches_total"} ELSE {})
    \cup (IF Cardinality(Aged) >= 5 THEN {"aging_24h"} ELSE {})

ReasonsWith(code) == SelectSeq(Health.score.reasons, LAMBDA r : r.code = code)

\* C22: each reason fires on its own condition (sla_breach_p0 iff a P0 breach
\* exists, sla_breaches_total iff at least 5 breaches, aging_24h iff at least
\* 5 active incidents aged 1440 minutes or more), each at most once; the
\* status is amber iff no P0 breach exists and another reason fired, green
\* iff none fired; aging_24h fired with no breach carries no incidents.
C22_IndependentReasons ==
    HealthServed =>
        /\ ReasonCodes = ClaimedCodes
        /\ Len(Health.score.reasons) = Cardinality(ClaimedCodes)
        /\ Health.score.status = "amber"
             <=> (P0OverBudget = {} /\ ClaimedCodes # {})
        /\ Health.score.status = "green" <=> ClaimedCodes = {}
        /\ (OverBudget = {} /\ "aging_24h" \in ReasonCodes) =>
             /\ Head(ReasonsWith("aging_24h")).top_incidents = <<>>
             /\ Health.score.status = "amber"

\* five P3 incidents aged exactly 1440 minutes and no breach: aging_24h alone
C22_Witness ==
    /\ last.op = "health"
    /\ Breached = <<>>
    /\ Cardinality({r \in Aged : r.priority = "P3" /\ AgeOf(r) = 1440}) = 5
    /\ ReasonCodes = {"aging_24h"}
    /\ Head(ReasonsWith("aging_24h")).top_incidents = <<>>
    /\ Health.score.status = "amber"

\* ---------------------------------------------------------------- target claims
P0Breached == SelectSeq(Breached, LAMBDA b : b.priority = "P0")

Least(a, b) == IF a <= b THEN a ELSE b

Prefix(s, n) == [k \in 1..Least(n, Len(s)) |-> s[k]]

\* C23: the targets of a recommendation are a prefix of the breach list of
\* the same snapshot: the first min(top_n, number of breaches) breaches for
\* the top-overdue and the aged-backlog actions, the first min(top_n, 3,
\* number of P0 breaches) P0 breaches for the P0 action, which so never lists
\* more than 3 incidents.
C23_TargetsArePrefixes ==
    last.op = "recommendations" =>
        \A k \in DOMAIN last.result :
            /\ last.result[k].action_type
                  \in {"resolve_top_breaches", "cleanup_aged_backlog"} =>
                    last.result[k].target_incidents = Prefix(Breached, last.top_n)
            /\ last.result[k].action_type = "resolve_p0_breaches" =>
                 /\ last.result[k].target_incidents
                       = Prefix(P0Breached, Least(last.top_n, 3))
                 /\ Len(last.result[k].target_incidents) <= 3

\* four P0 breaches among nine and top_n = 10: three P0 targets, nine targets
\* of the top-overdue action
C23_Witness ==
    /\ last.op = "recommendations"
    /\ last.top_n = 10
    /\ Len(P0Breached) = 4
    /\ Len(Breached) = 9
    /\ last.result[1].action_type = "resolve_p0_breaches"
    /\ Len(last.result[1].target_incidents) = 3
    /\ last.result[2].action_type = "resolve_top_breaches"
    /\ Len(last.result[2].target_incidents) = 9

\* ---------------------------------------------------------------- audit trail
EventsOf(i, kind) == SelectSeq(timeline[i], LAMBDA e : e.event_type = kind)

Chained(events) ==
    \A k \in 1..(Len(events) - 1) : events[k + 1].old_value = events[k].new_value

\* C24: for every incident the status_changed events, in append order, form
\* a chain from open to the stored status (each old value is the previous new
\* value; with no such event the stored status is open), and the new value
\* of the last priority_changed event is the stored priority.
C24_TrailAgreesWithState ==
    \A i \in DOMAIN incidents :
        /\ EventsOf(i, "status_changed") = <<>> => incidents[i].status = "open"
        /\ EventsOf(i, "status_changed") # <<>> =>
             /\ EventsOf(i, "status_changed")[1].old_value = "open"
             /\ Chained(EventsOf(i, "status_changed"))
             /\ EventsOf(i, "status_changed")[Len(EventsOf(i, "status_changed"))].new_value
                  = incidents[i].status
        /\ EventsOf(i, "priority_changed") # <<>> =>
             EventsOf(i, "priority_changed")[Len(EventsOf(i, "priority_changed"))].new_value
                = incidents[i].priority

\* a resolved incident with two status changes and a priority change on
\* record, after a later patch was served
C24_Witness ==
    /\ "inc-1" \in DOMAIN incidents
    /\ incidents["inc-1"].status = "resolved"
    /\ Len(EventsOf("inc-1", "status_changed")) = 2
    /\ Len(EventsOf("inc-1", "priority_changed")) = 1
    /\ incidents["inc-1"].priority = "P1"
    /\ last.op = "patch"
    /\ last.incidents["inc-1"].status = "resolved"

\* ---------------------------------------------------------------- footprint
Others == DOMAIN last.incidents \ {last.id}

IsPrefix(s, t) == Len(s) <= Len(t) /\ SubSeq(t, 1, Len(s)) = s

ResolutionOf(row) == <<row.resolved_at, row.resolved_by, row.resolution_notes>>

\* C25: a successful patch of an incident changes nothing but its priority,
\* status, updated_at and, when it enters resolved, its three resolution
\* fields, and appends only to its timeline: id, title, description and
\* created_at stay, every other incident and timeline is unchanged, and a
\* resolved incident keeps resolved_at, resolved_by and resolution_notes as
\* written at resolution.
C25_BoundedFootprint ==
    (Patching /\ last.result = "ok") =>
        /\ DOMAIN incidents = DOMAIN last.incidents
        /\ \A j \in Others :
             incidents[j] = last.incidents[j] /\ timeline[j] = last.timeline[j]
        /\ After.id = Before.id
        /\ After.title = Before.title
        /\ After.description = Before.description
        /\ After.created_at = Before.created_at
        /\ IsPrefix(last.timeline[last.id], timeline[last.id])
        /\ \A k \in DOMAIN Appended : Appended[k].incident_id = last.id
        /\ ~(Before.status # "resolved" /\ After.status = "resolved") =>
             ResolutionOf(After) = ResolutionOf(Before)
        /\ Before.status = "resolved" =>
             /\ After.status = "resolved"
             /\ ResolutionOf(After) = ResolutionOf(Before)

\* next to a second incident, a resolved incident is patched at a later
\* instant with another role and other notes
C25_Witness ==
    /\ Patching
    /\ last.result = "ok"
    /\ Others # {}
    /\ Before.status = "resolved"
    /\ last.payload.resolved_by = "support"
    /\ last.payload.resolution_notes = "again"
    /\ After.updated_at # Before.updated_at
    /\ After.resolved_by = "On-call"
    /\ After.resolved_at = Before.resolved_at

\* ---------------------------------------------------------------- bounded lifecycle
\* the statuses an incident has had, by its status_changed events
Visited(i) ==
    <<"open">> \o [k \in DOMAIN EventsOf(i, "status_changed") |->
                      EventsOf(i, "status_changed")[k].new_value]

NoRepeat(s) == \A a, b \in DOMAIN s : a # b => s[a] # s[b]

\* C26: an incident undergoes at most 3 status changes and never returns to
\* a status it has left: its timeline holds at most 3 status_changed events
\* over pairwise different statuses, at most one resolved_by and at most one
\* resolved_at event, and a patch that changes the status moves to a status
\* the incident has not had.
C26_BoundedLifecycle ==
    /\ \A i \in DOMAIN incidents :
         /\ Len(EventsOf(i, "status_changed")) <= 3
         /\ NoRepeat(Visited(i))
         /\ Visited(i)[Len(Visited(i))] = incidents[i].status
         /\ Len(EventsOf(i, "resolved_by")) <= 1
         /\ Len(EventsOf(i, "resolved_at")) <= 1
    /\ (Patching /\ last.result = "ok" /\ After.status # Before.status) =>
         \A e \in {last.timeline[last.id][k] : k \in DOMAIN last.timeline[last.id]} :
            e.event_type = "status_changed" =>
               After.status \notin {e.old_value, e.new_value}

\* an incident that went through all four statuses, and a further patch
C26_Witness ==
    /\ "inc-1" \in DOMAIN incidents
    /\ Visited("inc-1") = <<"open", "investigating", "mitigated", "resolved">>
    /\ Len(EventsOf("inc-1", "resolved_by")) = 1
    /\ Len(EventsOf("inc-1", "resolved_at")) = 1
    /\ last.op = "patch"
    /\ last.incidents["inc-1"].status = "resolved"

====
